---- MODULE Spec2Model ----
(***************************************************************************)
(* A model of golit (src/main.go): one run of main(), from the argument    *)
(* check to the last write on standard output.  Strings are sequences of   *)
(* one-character strings, so that strings.Split, the two regular           *)
(* expressions and the "\n"-joined accumulation are computed as the code   *)
(* computes them.                                                          *)
(***************************************************************************)
EXTENDS Integers, Sequences, FiniteSets, TLC

VARIABLES pc, args, sourcePath, title, markdownPath, pygmentizePath,
          lines, li, segs, lastSeen, ri, pi, stdout, stderr, exitCode,
          lookups, reads, nPipes, placed

vars == <<pc, args, sourcePath, title, markdownPath, pygmentizePath,
          lines, li, segs, lastSeen, ri, pi, stdout, stderr, exitCode,
          lookups, reads, nPipes, placed>>

\* ------------------------------------------------------------------ bounds
\* The longest source file explored, in lines (strings.Split elements).
MaxLines == 4

\* ----------------------------------------------------------------- strings
NL == "\n"

\* The characters matched by \s in Go's regexp syntax.
WhiteSpace == {" ", "\t", "\n", "\f", "\r"}

\* usage (the message of the argument check).
usage == "usage: golit input.go title > output.html"

\* The value exec.LookPath yields no path for.
NotFound == "<not found>"

\* The lines source files are made of: empty, code (a comment without the
\* space after `//`), doc, header, blank, an indented doc whose text is a
\* comment marker, a doc without text.
LineSet ==
  { <<>>,
    <<"/", "/", " ", "x">>,
    <<"/", "/", " ", "#", " ", "x">>,
    <<" ">>,
    <<"/", "/", "x">>,
    <<" ", "/", "/", " ", "/", "/", " ">>,
    <<"/", "/", " ">> }

RECURSIVE JoinLines(_)
\* The text of a file whose lines are ls (the inverse of strings.Split).
JoinLines(ls) ==
  IF Len(ls) = 1 THEN ls[1]
  ELSE ls[1] \o <<NL>> \o JoinLines(Tail(ls))

\* The contents a readable source file can have.
SourceFiles ==
  { JoinLines(ls) : ls \in UNION { [1..n -> LineSet] : n \in 1..MaxLines } }

RECURSIVE SplitFrom(_, _, _)
SplitFrom(s, sep, cur) ==
  IF s = <<>> THEN <<cur>>
  ELSE IF Head(s) = sep THEN <<cur>> \o SplitFrom(Tail(s), sep, <<>>)
  ELSE SplitFrom(Tail(s), sep, Append(cur, Head(s)))

\* strings.Split(s, sep) for a one-character separator.
Split(s, sep) == SplitFrom(s, sep, <<>>)

RECURSIVE LeadingSpace(_)
\* The length of the longest whitespace prefix (the \s* of docsPat).
LeadingSpace(s) ==
  IF s # <<>> /\ Head(s) \in WhiteSpace THEN 1 + LeadingSpace(Tail(s)) ELSE 0

\* The length of the match of docsPat ^\s*\/\/\s in line, 0 when none.
DocsPrefix(line) ==
  LET k == LeadingSpace(line) IN
  IF /\ Len(line) >= k + 3
     /\ line[k + 1] = "/"
     /\ line[k + 2] = "/"
     /\ line[k + 3] \in WhiteSpace
  THEN k + 3 ELSE 0

\* docsPat.MatchString(line)
DocsMatch(line) == DocsPrefix(line) > 0

\* A variant that keeps the line as it is.
Trimmed_Verbatim(line) == line

\* docsPat.ReplaceAllString(line, ""): the pattern is anchored, so the only
\* match is the prefix.
Trimmed(line) == SubSeq(line, DocsPrefix(line) + 1, Len(line))

\* headerPat.MatchString(line), headerPat being ^\/\/\s#+\s
HeaderMatch(line) ==
  /\ Len(line) >= 5
  /\ line[1] = "/"
  /\ line[2] = "/"
  /\ line[3] \in WhiteSpace
  /\ \E j \in 4..(Len(line) - 1) :
        /\ \A k \in 4..j : line[k] = "#"
        /\ line[j + 1] \in WhiteSpace

\* ---------------------------------------------------------------- segments
\* seg{docs: d, code: c}
NewSeg(d, c) == [docs |-> d, code |-> c, docsRendered |-> <<>>, codeRendered |-> <<>>]

\* A variant that initialises an empty field instead of joining onto it.
Accumulate_InitWhenEmpty(old, text) ==
  IF old = <<>> THEN text ELSE old \o <<NL>> \o text

\* A variant that joins without the line break.
Accumulate_NoBreak(old, text) == old \o text

\* lastSeg.docs + "\n" + trimmed, lastSeg.code + "\n" + line
Accumulate(old, text) == old \o <<NL>> \o text

\* A variant that puts the new segment in front.
AppendSeg_Front(ss, s) == <<s>> \o ss

\* A variant that overwrites the last segment.
AppendSeg_Overwrite(ss, s) ==
  IF ss = <<>> THEN <<s>> ELSE [ss EXCEPT ![Len(ss)] = s]

\* segs = append(segs, &newSeg)
AppendSeg(ss, s) == Append(ss, s)

\* A variant with the test inverted.
NewHeader_Inverted(seen) == seen = "header"

NewHeader(seen) == seen # "header"

\* A variant that opens a segment on every change of kind.
NewDocs_KindOnly(seen, lastSeg) == seen # "docs"

\* A variant that only looks at the open segment's docs.
NewDocs_FieldOnly(seen, lastSeg) == lastSeg.docs # <<>>

NewDocs(seen, lastSeg) == seen # "docs" /\ lastSeg.docs # <<>>

\* A variant that opens a segment on every change of kind.
NewCode_KindOnly(seen, lastSeg) == seen # "code"

NewCode(seen, lastSeg) == seen # "code" /\ lastSeg.code # <<>>

\* A variant of the header branch that records the header as last seen.
SeenAfterHeader_Set(seen) == "header"

\* The header branch assigns nothing to lastSeen.
SeenAfterHeader(seen) == seen

\* A variant that takes every whitespace-only line for an empty one.
EmptyMatch_Blank(line) == \A i \in 1..Len(line) : line[i] \in WhiteSpace

\* line == ""
EmptyMatch(line) == line = <<>>

LastHeader(seen) == seen = "header"

\* A variant that never continues a docs block with an empty line.
LastDocs_Never(seen) == FALSE

LastDocs(seen) == seen = "docs"

\* The output of a collaborator that exited with status 0: a function of the
\* program, its arguments and what it was fed.
Pipe(bin, arg, src) == [bin |-> bin, arg |-> arg, src |-> src]

\* The padding appended to the code before highlighting.
Padding == <<" ", " ">>

\* A variant with the two cells exchanged.
Row_Swapped(seg) == [kind |-> "row", docs |-> seg.codeRendered, code |-> seg.docsRendered]

\* One table body row.
Row(seg) == [kind |-> "row", docs |-> seg.docsRendered, code |-> seg.codeRendered]

\* --------------------------------------------------------------------- run
Init ==
  /\ pc = "args"
  /\ args \in { <<"golit">>, <<"golit", "in.go">>, <<"golit", "in.go", "T">>,
                <<"golit", "in.go", "T", "extra">> }
  /\ sourcePath = ""
  /\ title = ""
  /\ markdownPath = ""
  /\ pygmentizePath = ""
  /\ lines = <<>>
  /\ li = 1
  /\ segs = <<>>
  /\ lastSeen = ""
  /\ ri = 1
  /\ pi = 1
  /\ stdout = <<>>
  /\ stderr = <<>>
  /\ exitCode = -1
  /\ lookups = <<>>
  /\ reads = 0
  /\ nPipes = 0
  /\ placed = <<>>

\* check(err) with a non-nil error: the panic ends the run.
Panics(what) ==
  /\ pc' = "panic"
  /\ stderr' = Append(stderr, what)
  /\ exitCode' = 2

\* A variant that only rejects too few arguments.
BadArgs_TooFew(a) == Len(a) < 3

\* len(os.Args) != 3
BadArgs(a) == Len(a) # 3

CheckArgs ==
  /\ pc = "args"
  /\ IF BadArgs(args)
     THEN /\ stderr' = Append(stderr, usage)
          /\ exitCode' = 1
          /\ pc' = "exit"
          /\ UNCHANGED <<sourcePath, title>>
     ELSE /\ sourcePath' = args[2]
          /\ title' = args[3]
          /\ pc' = "lookMarkdown"
          /\ UNCHANGED <<stderr, exitCode>>
  /\ UNCHANGED <<args, markdownPath, pygmentizePath, lines, li, segs, lastSeen,
                 ri, pi, stdout, lookups, reads, nPipes, placed>>

LookMarkdown ==
  /\ pc = "lookMarkdown"
  /\ lookups' = Append(lookups, "markdown")
  /\ \E found \in {"/bin/markdown", NotFound} :
       IF found = NotFound
       THEN Panics("markdown not found") /\ UNCHANGED markdownPath
       ELSE /\ markdownPath' = found
            /\ pc' = "lookPygmentize"
            /\ UNCHANGED <<stderr, exitCode>>
  /\ UNCHANGED <<args, sourcePath, title, pygmentizePath, lines, li, segs,
                 lastSeen, ri, pi, stdout, reads, nPipes, placed>>

\* A variant that goes on without the path.
LookPygmentize_Unchecked ==
  /\ pc = "lookPygmentize"
  /\ lookups' = Append(lookups, "pygmentize")
  /\ \E found \in {"/bin/pygmentize", NotFound} :
       /\ pygmentizePath' = found
       /\ pc' = "read"
       /\ UNCHANGED <<stderr, exitCode>>
  /\ UNCHANGED <<args, sourcePath, title, markdownPath, lines, li, segs,
                 lastSeen, ri, pi, stdout, reads, nPipes, placed>>

LookPygmentize ==
  /\ pc = "lookPygmentize"
  /\ lookups' = Append(lookups, "pygmentize")
  /\ \E found \in {"/bin/pygmentize", NotFound} :
       IF found = NotFound
       THEN Panics("pygmentize not found") /\ UNCHANGED pygmentizePath
       ELSE /\ pygmentizePath' = found
            /\ pc' = "read"
            /\ UNCHANGED <<stderr, exitCode>>
  /\ UNCHANGED <<args, sourcePath, title, markdownPath, lines, li, segs,
                 lastSeen, ri, pi, stdout, reads, nPipes, placed>>

\* ioutil.ReadFile, strings.Split and the creation of the first segment.
ReadSource ==
  /\ pc = "read"
  /\ reads' = reads + 1
  /\ \/ /\ Panics("read error")
        /\ UNCHANGED <<lines, segs>>
     \/ \E srcBytes \in SourceFiles :
          /\ lines' = Split(srcBytes, NL)
          /\ segs' = AppendSeg(<<>>, NewSeg(<<>>, <<>>))
          /\ pc' = "segment"
          /\ UNCHANGED <<stderr, exitCode>>
  /\ UNCHANGED <<args, sourcePath, title, markdownPath, pygmentizePath, li,
                 lastSeen, ri, pi, stdout, lookups, nPipes, placed>>

\* One iteration of the loop over lines.
SegmentLine ==
  /\ pc = "segment"
  /\ li <= Len(lines)
  /\ LET line == lines[li]
         headerMatch == HeaderMatch(line)
         docsMatch == DocsMatch(line)
         emptyMatch == EmptyMatch(line)
         n == Len(segs)
         lastSeg == segs[n]
         lastHeader == LastHeader(lastSeen)
         lastDocs == LastDocs(lastSeen)
         newHeader == NewHeader(lastSeen)
         newDocs == NewDocs(lastSeen, lastSeg)
         newCode == NewCode(lastSeen, lastSeg)
     IN
     IF headerMatch \/ (emptyMatch /\ lastHeader)
     THEN /\ segs' = IF newHeader
                     THEN AppendSeg(segs, NewSeg(Trimmed(line), <<>>))
                     ELSE [segs EXCEPT ![n].docs = Accumulate(@, Trimmed(line))]
          /\ lastSeen' = SeenAfterHeader(lastSeen)
          /\ placed' = Append(placed, [path |-> "header", new |-> newHeader,
                                    seg |-> IF newHeader THEN n + 1 ELSE n])
     ELSE IF docsMatch \/ (emptyMatch /\ lastDocs)
     THEN /\ segs' = IF newDocs
                     THEN AppendSeg(segs, NewSeg(Trimmed(line), <<>>))
                     ELSE [segs EXCEPT ![n].docs = Accumulate(@, Trimmed(line))]
          /\ lastSeen' = "docs"
          /\ placed' = Append(placed, [path |-> "docs", new |-> newDocs,
                                    seg |-> IF newDocs THEN n + 1 ELSE n])
     ELSE /\ segs' = IF newCode
                     THEN AppendSeg(segs, NewSeg(<<>>, line))
                     ELSE [segs EXCEPT ![n].code = Accumulate(@, line)]
          /\ lastSeen' = "code"
          /\ placed' = Append(placed, [path |-> "code", new |-> newCode,
                                    seg |-> IF newCode THEN n + 1 ELSE n])
  /\ li' = li + 1
  /\ pc' = IF li = Len(lines) THEN "renderDocs" ELSE "segment"
  /\ UNCHANGED <<args, sourcePath, title, markdownPath, pygmentizePath, lines,
                 ri, pi, stdout, stderr, exitCode, lookups, reads, nPipes>>

\* seg.docsRendered = pipe(markdownPath, []string{}, seg.docs)
RenderDocs ==
  /\ pc = "renderDocs"
  /\ nPipes' = nPipes + 1
  /\ \/ /\ Panics("markdown failed")
        /\ UNCHANGED segs
     \/ /\ segs' = [segs EXCEPT ![ri].docsRendered =
                       Pipe(markdownPath, <<>>, segs[ri].docs)]
        /\ pc' = "renderCode"
        /\ UNCHANGED <<stderr, exitCode>>
  /\ UNCHANGED <<args, sourcePath, title, markdownPath, pygmentizePath, lines,
                 li, lastSeen, ri, pi, stdout, lookups, reads, placed>>

\* A variant that writes each row as soon as its segment is rendered.
RenderCode_Streaming ==
  /\ pc = "renderCode"
  /\ nPipes' = nPipes + 1
  /\ \/ /\ Panics("pygmentize failed")
        /\ UNCHANGED <<segs, ri, stdout>>
     \/ /\ segs' = [segs EXCEPT ![ri].codeRendered =
                       Pipe(pygmentizePath, <<"-l", "go", "-f", "html">>,
                            segs[ri].code \o Padding)]
        /\ stdout' = Append(stdout, Row(segs'[ri]))
        /\ ri' = ri + 1
        /\ pc' = IF ri = Len(segs) THEN "printHeader" ELSE "renderDocs"
        /\ UNCHANGED <<stderr, exitCode>>
  /\ UNCHANGED <<args, sourcePath, title, markdownPath, pygmentizePath, lines,
                 li, lastSeen, pi, lookups, reads, placed>>

\* seg.codeRendered = pipe(pygmentizePath, ..., seg.code+"  ")
RenderCode ==
  /\ pc = "renderCode"
  /\ nPipes' = nPipes + 1
  /\ \/ /\ Panics("pygmentize failed")
        /\ UNCHANGED <<segs, ri>>
     \/ /\ segs' = [segs EXCEPT ![ri].codeRendered =
                       Pipe(pygmentizePath, <<"-l", "go", "-f", "html">>,
                            segs[ri].code \o Padding)]
        /\ ri' = ri + 1
        /\ pc' = IF ri = Len(segs) THEN "printHeader" ELSE "renderDocs"
        /\ UNCHANGED <<stderr, exitCode>>
  /\ UNCHANGED <<args, sourcePath, title, markdownPath, pygmentizePath, lines,
                 li, lastSeen, pi, stdout, lookups, reads, placed>>

PrintHeader ==
  /\ pc = "printHeader"
  /\ stdout' = Append(stdout, [kind |-> "head", title |-> title])
  /\ pc' = "printRows"
  /\ UNCHANGED <<args, sourcePath, title, markdownPath, pygmentizePath, lines,
                 li, segs, lastSeen, ri, pi, stderr, exitCode, lookups, reads,
                 nPipes, placed>>

PrintRow ==
  /\ pc = "printRows"
  /\ pi <= Len(segs)
  /\ stdout' = Append(stdout, Row(segs[pi]))
  /\ pi' = pi + 1
  /\ pc' = IF pi = Len(segs) THEN "printFooter" ELSE "printRows"
  /\ UNCHANGED <<args, sourcePath, title, markdownPath, pygmentizePath, lines,
                 li, segs, lastSeen, ri, stderr, exitCode, lookups, reads,
                 nPipes, placed>>

PrintFooter ==
  /\ pc = "printFooter"
  /\ stdout' = Append(stdout, [kind |-> "foot"])
  /\ exitCode' = 0
  /\ pc' = "done"
  /\ UNCHANGED <<args, sourcePath, title, markdownPath, pygmentizePath, lines,
                 li, segs, lastSeen, ri, pi, stderr, lookups, reads, nPipes,
                 placed>>

Next ==
  \/ CheckArgs
  \/ LookMarkdown
  \/ LookPygmentize
  \/ ReadSource
  \/ SegmentLine
  \/ RenderDocs
  \/ RenderCode
  \/ PrintHeader
  \/ PrintRow
  \/ PrintFooter

Spec == Init /\ [][Next]_vars

TypeOK ==
  /\ pc \in {"args", "lookMarkdown", "lookPygmentize", "read", "segment",
             "renderDocs", "renderCode", "printHeader", "printRows",
             "printFooter", "done", "exit", "panic"}
  /\ lastSeen \in {"", "docs", "code", "header"}
  /\ li \in 1..(Len(lines) + 1)
  /\ Len(placed) = li - 1

\* ------------------------------------------------------------- definitions
\* The loop over lines has run to its end.
SegmentationDone == Len(lines) > 0 /\ li > Len(lines)

\* A segment nothing was accumulated into.
EmptySeg(s) == s.docs = <<>> /\ s.code = <<>>

\* A line `// T` that is not a header line.
PlainDoc(l) == DocsPrefix(l) = 3 /\ l[3] = " " /\ ~HeaderMatch(l)

\* A header line `// # H`.
HeaderLine(l) == HeaderMatch(l) /\ l[3] = " "

\* A non-empty line that matches neither pattern.
CodeLine(l) == l # <<>> /\ ~DocsMatch(l) /\ ~HeaderMatch(l)

\* Input `// T`, C, and the empty element after the trailing newline.
Scenario1 ==
  /\ Len(lines) = 3
  /\ PlainDoc(lines[1])
  /\ CodeLine(lines[2])
  /\ lines[3] = <<>>

\* Input `// # H`, an empty line, C, and the empty element after the trailing
\* newline.
Scenario2 ==
  /\ Len(lines) = 4
  /\ HeaderLine(lines[1])
  /\ lines[2] = <<>>
  /\ CodeLine(lines[3])
  /\ lines[4] = <<>>

\* ---------------------------------------------------------------------- C1
\* C1 as stated: at the end of the segmentation pass the first segment has
\* empty docs and empty code.
C1_Original == SegmentationDone => EmptySeg(segs[1])

\* C1 amended: the stream begins with the segment created before any line is
\* processed, which is empty at that moment; at the end of the pass it is
\* still empty exactly when the first line is a header line, and otherwise
\* the first line has been accumulated into it.
C1_FirstSegment ==
  Len(lines) > 0 =>
    /\ Len(segs) >= 1
    /\ (li = 1 => segs = <<NewSeg(<<>>, <<>>)>>)
    /\ (SegmentationDone => (EmptySeg(segs[1]) <=> HeaderMatch(lines[1])))

C1_Witness ==
  /\ SegmentationDone
  /\ PlainDoc(lines[1])
  /\ segs[1].docs = <<NL>> \o Trimmed(lines[1])

\* ---------------------------------------------------------------------- C2
\* C2 as stated: `// T`, C, trailing newline give two segments after the
\* first one, with docs exactly T and code exactly C.
C2_Original ==
  (SegmentationDone /\ Scenario1) =>
    /\ Len(segs) = 3
    /\ segs[2].docs = SubSeq(lines[1], 4, Len(lines[1]))
    /\ segs[3].code = lines[2]

\* C2 amended: `// T`, C, trailing newline give no segment after the first
\* one; the first segment holds docs = line break, T and code = line break,
\* C, line break.
C2_Scenario1 ==
  (SegmentationDone /\ Scenario1) =>
    /\ Len(segs) = 1
    /\ segs[1].docs = <<NL>> \o SubSeq(lines[1], 4, Len(lines[1]))
    /\ segs[1].code = <<NL>> \o lines[2] \o <<NL>>

C2_Witness ==
  /\ SegmentationDone
  /\ Scenario1
  /\ lines[1] = <<"/", "/", " ", "x">>
  /\ lines[2] = <<"/", "/", "x">>
  /\ pc = "renderDocs"

\* ---------------------------------------------------------------------- C3
\* C3 as stated: `// # H`, empty line, C, trailing newline give a header
\* segment with docs "# H" immediately followed by a separate code segment
\* whose code begins with an empty line and then C.
C3_Original ==
  (SegmentationDone /\ Scenario2) =>
    \E i \in 1..(Len(segs) - 1) :
      /\ segs[i].docs = SubSeq(lines[1], 4, Len(lines[1]))
      /\ segs[i + 1].docs = <<>>
      /\ LET parts == Split(segs[i + 1].code, NL) IN
           /\ Len(parts) >= 2
           /\ parts[1] = <<>>
           /\ parts[2] = lines[3]

\* C3 amended: `// # H`, empty line, C, trailing newline give a header
\* segment with docs exactly "# H" that is the last segment of the stream;
\* the empty line and C are accumulated into that segment's own code, which
\* is line break, line break, C, line break.
C3_Scenario2 ==
  (SegmentationDone /\ Scenario2) =>
    /\ Len(segs) = 2
    /\ EmptySeg(segs[1])
    /\ segs[2].docs = SubSeq(lines[1], 4, Len(lines[1]))
    /\ segs[2].code = <<NL, NL>> \o lines[3] \o <<NL>>

C3_Witness ==
  /\ SegmentationDone
  /\ Scenario2
  /\ lines[3] = <<"/", "/", "x">>
  /\ segs[2].docs = <<"#", " ", "x">>

\* ---------------------------------------------------------------------- C4
\* Lines a..b are a maximal run of consecutive code-path lines among the
\* lines processed so far.
CodeRun(a, b) ==
  /\ a <= b
  /\ \A i \in a..b : placed[i].path = "code"
  /\ a = 1 \/ placed[a - 1].path # "code"
  /\ b = Len(placed) \/ placed[b + 1].path # "code"

\* C4 as stated: a maximal run of code-path lines is in the code of a single
\* segment, and splitting that code on line breaks gives exactly the lines of
\* the run.
C4_Original ==
  \A a \in 1..Len(placed) : \A b \in a..Len(placed) :
    CodeRun(a, b) =>
      /\ \A i \in a..b : placed[i].seg = placed[a].seg
      /\ Split(segs[placed[a].seg].code, NL) = SubSeq(lines, a, b)

\* C4 amended: a maximal run of code-path lines is in the code of a single
\* segment, in order; splitting that code on line breaks gives exactly the
\* lines of the run when the first line of the run opened the segment, and
\* one extra empty element followed by the lines of the run when the run
\* began in the open segment (whose code was empty).
C4_CodeRuns ==
  \A a \in 1..Len(placed) : \A b \in a..Len(placed) :
    CodeRun(a, b) =>
      /\ \A i \in a..b : placed[i].seg = placed[a].seg
      /\ Split(segs[placed[a].seg].code, NL) =
           IF placed[a].new THEN SubSeq(lines, a, b)
           ELSE << <<>> >> \o SubSeq(lines, a, b)

C4_Witness ==
  /\ SegmentationDone
  /\ \E a \in 1..Len(placed) : \E b \in (a + 1)..Len(placed) :
       /\ CodeRun(a, b)
       /\ placed[a].new
       /\ Split(segs[placed[a].seg].code, NL) = SubSeq(lines, a, b)
  /\ \E a \in 1..Len(placed) : CodeRun(a, a) /\ ~placed[a].new

\* ---------------------------------------------------------------------- C5
\* C5: processing a header-classified line appends one segment to the stream,
\* holding the stripped header, whatever the lines before it were.
C5_HeaderOpens ==
  [][(pc = "segment" /\ HeaderMatch(lines[li])) =>
       /\ Len(segs') = Len(segs) + 1
       /\ SubSeq(segs', 1, Len(segs)) = segs
       /\ segs'[Len(segs')] = NewSeg(Trimmed(lines[li]), <<>>)]_vars

C5_Witness ==
  \E i \in 1..(Len(placed) - 1) :
    /\ HeaderMatch(lines[i])
    /\ HeaderMatch(lines[i + 1])
    /\ placed[i].new
    /\ placed[i + 1].new
    /\ placed[i + 1].seg = placed[i].seg + 1
    /\ Len(segs) >= placed[i + 1].seg

\* ---------------------------------------------------------------------- C6
\* C6: an empty line right after a doc-path line is appended to the docs of
\* the segment holding that line; right after a code-path line it is appended
\* to the code of the segment holding that line; before any doc-path or
\* code-path line it takes the code path.
C6_EmptyLine ==
  [][(pc = "segment" /\ lines[li] = <<>>) =>
       /\ (li > 1 /\ placed[li - 1].path = "docs") =>
            /\ segs' = [segs EXCEPT ![placed[li - 1].seg].docs = @ \o <<NL>>]
            /\ placed'[li].path = "docs"
       /\ (li > 1 /\ placed[li - 1].path = "code") =>
            /\ segs' = [segs EXCEPT ![placed[li - 1].seg].code = @ \o <<NL>>]
            /\ placed'[li].path = "code"
       /\ (\A j \in 1..(li - 1) : placed[j].path = "header") =>
            /\ segs' = [segs EXCEPT ![Len(segs)].code = @ \o <<NL>>]
            /\ placed'[li].path = "code"]_vars

C6_Witness ==
  /\ Len(placed) >= 1
  /\ lines[1] = <<>>
  /\ placed[1].path = "code"
  /\ \E i \in 1..(Len(placed) - 1) :
       /\ PlainDoc(lines[i])
       /\ lines[i + 1] = <<>>
       /\ placed[i + 1] = [path |-> "docs", new |-> FALSE, seg |-> placed[i].seg]
       /\ segs[placed[i].seg].docs = <<NL>> \o Trimmed(lines[i]) \o <<NL>>
  /\ \E i \in 1..(Len(placed) - 1) :
       /\ placed[i].path = "code"
       /\ lines[i + 1] = <<>>
       /\ placed[i + 1] = [path |-> "code", new |-> FALSE, seg |-> placed[i].seg]

\* ---------------------------------------------------------------------- C7
\* C7: a run that has failed has written nothing to standard output, and
\* whenever something is on standard output both render calls of every
\* segment have succeeded.
C7_NoOutputOnFailure ==
  /\ pc \in {"exit", "panic"} => stdout = <<>>
  /\ stdout # <<>> =>
       /\ SegmentationDone
       /\ ri = Len(segs) + 1
       /\ nPipes = 2 * Len(segs)
       /\ exitCode \in {-1, 0}

C7_Witness ==
  /\ pc = "panic"
  /\ nPipes >= 3
  /\ stdout = <<>>

Raw(ss) == [i \in 1..Len(ss) |-> <<ss[i].docs, ss[i].code>>]

\* The row a segment is to give.
RenderedRow(s) ==
  [kind |-> "row",
   docs |-> Pipe(markdownPath, <<>>, s.docs),
   code |-> Pipe(pygmentizePath, <<"-l", "go", "-f", "html">>, s.code \o Padding)]

\* C9: after a successful run standard output holds, between the page header
\* and the footer, one row per segment of the stream in stream order, row i
\* holding the rendering of segment i's docs and code; and the raw stream no
\* longer changes once segmentation has ended.
C9_Rows ==
  /\ [](pc = "done" =>
          /\ Len(stdout) = Len(segs) + 2
          /\ stdout[1] = [kind |-> "head", title |-> args[3]]
          /\ stdout[Len(stdout)] = [kind |-> "foot"]
          /\ \A i \in 1..Len(segs) : stdout[i + 1] = RenderedRow(segs[i]))
  /\ [][SegmentationDone => Raw(segs') = Raw(segs)]_vars

C9_Witness ==
  /\ pc = "done"
  /\ Len(segs) >= 3
  /\ Len(stdout) = Len(segs) + 2
  /\ \E i \in 1..Len(segs) : segs[i].docs # <<>> /\ segs[i].code # <<>>

\* --------------------------------------------------------------------- C10
RECURSIVE Replay(_, _, _)
\* The field (side is "docs" or "code") of segment s as the first k lines
\* built it, each line contributing to the one segment it was placed in.
Replay(s, side, k) ==
  IF k = 0 THEN <<>>
  ELSE LET prev == Replay(s, side, k - 1)
           p == placed[k]
           mine == p.seg = s /\ ((side = "code") <=> (p.path = "code"))
           text == IF side = "code" THEN lines[k] ELSE Trimmed(lines[k])
       IN IF ~mine THEN prev
          ELSE IF p.new THEN text
          ELSE prev \o <<NL>> \o text

\* C10: every processed line is placed in exactly one segment, the segment
\* numbers of successive lines never decrease (so each segment's lines are a
\* contiguous range and precede those of the next segment), and each
\* segment's docs and code consist of exactly the texts of its own lines.
C10_Partition ==
  /\ \A i \in 1..Len(placed) : placed[i].seg \in 1..Len(segs)
  /\ \A i \in 1..(Len(placed) - 1) :
       placed[i + 1].seg \in {placed[i].seg, placed[i].seg + 1}
  /\ \A s \in 1..Len(segs) :
       /\ segs[s].docs = Replay(s, "docs", Len(placed))
       /\ segs[s].code = Replay(s, "code", Len(placed))
       /\ s > 1 => \E i \in 1..Len(placed) : placed[i].seg = s

C10_Witness ==
  /\ SegmentationDone
  /\ Len(lines) = 4
  /\ Len(segs) = 3
  /\ segs[2].docs # <<>>
  /\ segs[2].code # <<>>
  /\ placed[2].seg = 2
  /\ placed[3].seg = 2

\* --------------------------------------------------------------------- C11
\* p is a comment-marker prefix: whitespace, `//`, one whitespace character.
IsMarker(p) ==
  /\ Len(p) >= 3
  /\ \A i \in 1..(Len(p) - 3) : p[i] \in WhiteSpace
  /\ p[Len(p) - 2] = "/"
  /\ p[Len(p) - 1] = "/"
  /\ p[Len(p)] \in WhiteSpace

\* t contains `//` followed by a whitespace character.
HasMarker(t) ==
  \E i \in 1..(Len(t) - 2) : t[i] = "/" /\ t[i + 1] = "/" /\ t[i + 2] \in WhiteSpace

\* t contains `//`.
HasSlashes(t) == \E i \in 1..(Len(t) - 1) : t[i] = "/" /\ t[i + 1] = "/"

\* added is line without its comment-marker prefix (an empty line has none).
StripsMarker(line, added) ==
  \E k \in 0..Len(line) :
    /\ line = SubSeq(line, 1, k) \o added
    /\ IsMarker(SubSeq(line, 1, k)) \/ (k = 0 /\ line = <<>>)

\* The step places a line on the header or doc path, and what it adds to the
\* docs of the owning segment is the line without its marker prefix.
AddsStripped ==
  (pc = "segment" /\ placed'[li].path \in {"header", "docs"}) =>
    LET p == placed'[li]
        old == IF p.new THEN <<>> ELSE segs[p.seg].docs \o <<NL>>
        new == segs'[p.seg].docs
    IN /\ Len(new) >= Len(old)
       /\ SubSeq(new, 1, Len(old)) = old
       /\ StripsMarker(lines[li], SubSeq(new, Len(old) + 1, Len(new)))

\* C11 as stated: what a header-path or doc-path line adds to the docs is the
\* line without its marker prefix, and no segment's docs contains `//`
\* followed by a whitespace character.
C11_Original ==
  /\ [][AddsStripped]_vars
  /\ [](\A s \in 1..Len(segs) : ~HasMarker(segs[s].docs))

\* C11 amended: what a header-path or doc-path line adds to the docs is the
\* line without its leading marker prefix, removed once; the docs of a
\* segment is free of `//` followed by a whitespace character whenever none
\* of the stripped texts of its lines contains `//`.
C11_Stripped ==
  /\ [][AddsStripped]_vars
  /\ [](\A s \in 1..Len(segs) :
          (\A i \in 1..Len(placed) :
             (placed[i].seg = s /\ placed[i].path # "code") =>
               ~HasSlashes(Trimmed(lines[i])))
          => ~HasMarker(segs[s].docs))

C11_Witness ==
  /\ Len(placed) >= 3
  /\ HeaderMatch(lines[1])
  /\ PlainDoc(lines[2])
  /\ placed[2].path = "docs"
  /\ lines[3] = <<" ", "/", "/", " ", "/", "/", " ">>
  /\ placed[3] = [path |-> "docs", new |-> FALSE, seg |-> placed[2].seg]
  /\ segs[placed[3].seg].docs = Trimmed(lines[2]) \o <<NL, "/", "/", " ">>

\* --------------------------------------------------------------------- C12
\* A non-empty line made of whitespace characters only.
WhitespaceOnly(l) == l # <<>> /\ \A i \in 1..Len(l) : l[i] \in WhiteSpace

\* C12 as stated: a whitespace-only line met while lastSeen is docs takes the
\* doc path and is appended to the docs of the open segment.
C12_Original ==
  [][(pc = "segment" /\ WhitespaceOnly(lines[li]) /\ lastSeen = "docs") =>
       /\ placed'[li].path = "docs"
       /\ segs'[Len(segs)].docs # segs[Len(segs)].docs
       /\ segs'[Len(segs')].code = segs[Len(segs)].code]_vars

\* C12 amended: only the empty line is classified blank.  A line of one or
\* more whitespace characters always takes the code path; met while lastSeen
\* is docs it leaves every docs field as it is and is stored verbatim as
\* code, appended to the open segment when that segment's code is empty and
\* opening a new segment otherwise.
C12_WhitespaceIsCode ==
  [][(pc = "segment" /\ WhitespaceOnly(lines[li])) =>
       /\ placed'[li].path = "code"
       /\ lastSeen' = "code"
       /\ lastSeen = "docs" =>
            segs' = IF segs[Len(segs)].code = <<>>
                    THEN [segs EXCEPT ![Len(segs)].code = <<NL>> \o lines[li]]
                    ELSE Append(segs, NewSeg(<<>>, lines[li]))]_vars

C12_Witness ==
  \E i \in 1..(Len(placed) - 1) :
    /\ PlainDoc(lines[i])
    /\ placed[i].path = "docs"
    /\ WhitespaceOnly(lines[i + 1])
    /\ placed[i + 1] = [path |-> "code", new |-> FALSE, seg |-> placed[i].seg]
    /\ segs[placed[i].seg].code = <<NL>> \o lines[i + 1]

\* --------------------------------------------------------------------- C13
\* C13: the docs of a segment opened by a header line is that header's
\* stripped text and nothing else, whatever lines follow.
C13_DedicatedHeader ==
  \A i \in 1..Len(placed) :
    (placed[i].path = "header" /\ placed[i].new) =>
      segs[placed[i].seg].docs = Trimmed(lines[i])

\* --------------------------------------------------------------------- C14
\* Lines i and k are on the same path, a line of the other kind lies between
\* them, and both are in the same segment.
SharedAcross(kind, other) ==
  \E i \in 1..Len(placed) : \E j \in (i + 1)..Len(placed) :
    \E k \in (j + 1)..Len(placed) :
      /\ placed[i].path = kind
      /\ placed[j].path = other
      /\ placed[k].path = kind
      /\ placed[i].seg = placed[k].seg

\* C14: two doc-path lines separated by a code-path line, and two code-path
\* lines separated by a doc-path line, are never in the same segment.
C14_OneRunPerKind ==
  /\ ~SharedAcross("docs", "code")
  /\ ~SharedAcross("code", "docs")

\* --------------------------------------------------------------------- C15
\* t occurs in s as a block of consecutive characters.
Contains(s, t) ==
  \E k \in 0..(Len(s) - Len(t)) : SubSeq(s, k + 1, k + Len(t)) = t

\* C15: two adjacent lines that both take the doc path are in the docs of the
\* same segment, joined by a line break, and so are two adjacent lines that
\* both take the code path in the code of the same segment.
C15_NoSplitWithinKind ==
  \A i \in 1..(Len(placed) - 1) :
    /\ (placed[i].path = "docs" /\ placed[i + 1].path = "docs") =>
         /\ placed[i + 1].seg = placed[i].seg
         /\ ~placed[i + 1].new
         /\ Contains(segs[placed[i].seg].docs,
                     Trimmed(lines[i]) \o <<NL>> \o Trimmed(lines[i + 1]))
    /\ (placed[i].path = "code" /\ placed[i + 1].path = "code") =>
         /\ placed[i + 1].seg = placed[i].seg
         /\ ~placed[i + 1].new
         /\ Contains(segs[placed[i].seg].code,
                     lines[i] \o <<NL>> \o lines[i + 1])

C15_Witness ==
  /\ SegmentationDone
  /\ Len(lines) = 4
  /\ PlainDoc(lines[1])
  /\ PlainDoc(lines[2])
  /\ CodeLine(lines[3])
  /\ CodeLine(lines[4])
  /\ placed[2].seg = placed[1].seg
  /\ placed[4].seg = placed[3].seg

\* --------------------------------------------------------------------- C16
\* C16: lastSeen is always unset, "docs" or "code"; processing a header line
\* leaves lastSeen as it was and opens a segment, so no line on the header
\* path is ever appended to the open segment.
C16_NoHeaderState ==
  /\ [](lastSeen \in {"", "docs", "code"})
  /\ [](\A i \in 1..Len(placed) : placed[i].path = "header" => placed[i].new)
  /\ [][(pc = "segment" /\ HeaderMatch(lines[li])) =>
          /\ lastSeen' = lastSeen
          /\ placed'[li].path = "header"
          /\ Len(segs') = Len(segs) + 1]_vars

C16_Witness ==
  /\ Len(placed) >= 2
  /\ placed[Len(placed)].path = "header"
  /\ placed[Len(placed) - 1].path = "header"
  /\ lastSeen = "code"
  /\ Len(segs) >= 3

\* --------------------------------------------------------------------- C17
\* The step leaves the segments before the last one as they are and changes
\* exactly one raw field of the last one.
ModifiesLast ==
  LET n == Len(segs) IN
  /\ Len(segs') = n
  /\ \A i \in 1..(n - 1) : segs'[i] = segs[i]
  /\ segs'[n].docsRendered = segs[n].docsRendered
  /\ segs'[n].codeRendered = segs[n].codeRendered
  /\ (segs'[n].docs # segs[n].docs) # (segs'[n].code # segs[n].code)

\* The step adds one segment at the end and leaves the others as they are.
AppendsOne ==
  /\ Len(segs') = Len(segs) + 1
  /\ SubSeq(segs', 1, Len(segs)) = segs

\* C17: processing one line either appends one segment at the end of the
\* stream, leaving the existing ones unchanged, or modifies exactly one of
\* docs and code of the last segment; and no step of the run makes the stream
\* shorter.
C17_Frame ==
  /\ [][pc = "segment" => (AppendsOne \/ ModifiesLast)]_vars
  /\ [][Len(segs') >= Len(segs)]_vars

C17_Witness ==
  /\ Len(placed) >= 3
  /\ Len(segs) = 2
  /\ ~placed[1].new
  /\ ~placed[2].new
  /\ placed[1].path # placed[2].path
  /\ placed[3].new
  /\ segs[1].docs # <<>>
  /\ segs[1].code # <<>>

\* --------------------------------------------------------------------- C18
\* C18: the source is read, lines are segmented and renderers are invoked
\* only after both executables were looked up and found, markdown first; a
\* run whose lookup failed has read nothing, segmented nothing, rendered
\* nothing and written nothing to standard output.
C18_ResolveFirst ==
  /\ (reads > 0 \/ lines # <<>> \/ segs # <<>> \/ nPipes > 0) =>
       /\ lookups = <<"markdown", "pygmentize">>
       /\ markdownPath \notin {"", NotFound}
       /\ pygmentizePath \notin {"", NotFound}
  /\ (pc = "panic" /\ (markdownPath = "" \/ pygmentizePath = "")) =>
       /\ reads = 0
       /\ lines = <<>>
       /\ segs = <<>>
       /\ placed = <<>>
       /\ nPipes = 0
       /\ stdout = <<>>
       /\ exitCode # 0

C18_Witness ==
  /\ pc = "panic"
  /\ lookups = <<"markdown", "pygmentize">>
  /\ markdownPath # ""
  /\ pygmentizePath = ""
  /\ reads = 0
====
